---- MODULE Spec2Model ----
(***************************************************************************)
(* Model of the snapshot commands of turbo/app/snapshots.go (retire,       *)
(* create, index, compress, uncompress).  The hot store, the segment       *)
(* directory and the history aggregator are the state; each command is a   *)
(* controller whose position is pc.                                        *)
(***************************************************************************)
EXTENDS Integers, Sequences, FiniteSets, TLC

\* ------------------------------------------------------------------ bounds
\* uint64 arithmetic wraps; the model's integers are 32 bit, so the word is
\* scaled down to UintMod values (0 .. UintMod-1).
UintMod == 1073741824
\* Highest block number stored in the hot store of the retire runs.
MaxBlock == 3
\* Inputs of retire: from in 0..MaxFrom, to in 0..MaxTo, every in 0..MaxEvery.
MaxFrom == 1
MaxTo == 3
MaxEvery == 2
\* Invocations of retire in one behaviour.
MaxRuns == 2
\* Passes of the block loop the model follows in one invocation (with every = 0
\* the loop of the code never ends).
MaxDumps == 5
\* Rows one PruneAncientBlocks call may delete.
PruneBudget == 3
\* Transaction numbers per block, and the width of one aggregation step.
TxsPerBlock == 2
AggStep == 2

\* Records in one input stream of compress, and bytes cut off its end.
\* Rows that a sub-range makes eligible in the runs that follow the block
\* prune loop call by call.
EligibleRows == 10

MaxRecs == 3
MaxCut == 2
\* Bytes of output of the uncompress runs that are followed.
MaxOut == 400
\* access list tracer: the highest address, the CaptureState events followed
MaxAddr == 2
MaxEvents == 2

\* --------------------------------------------------------- program constants
\* buf := make([]byte, 0, int(1*datasize.MB))
InitBufCap == 1048576
\* wr := bufio.NewWriterSize(os.Stdout, int(128*datasize.MB))
WriterSize == 134217728
\* params.FullImmutabilityThreshold, the reorg safety margin
FullImmutabilityThreshold == 90000
\* binary.MaxVarintLen64 (var numBuf [binary.MaxVarintLen64]byte)
MaxVarintLen64 == 10
\* if segmentSize < 1000
MinSegmentSize == 1000
\* for j := 0; j < 10_000; j++
PruneIters == 10000
\* for i := 0; i < 1024; i++
HistPruneIters == 1024

VARIABLES
    blocks,        \* hot store: block numbers that have rows
    histRows,      \* hot store: transaction numbers that have history rows
    execProgress,  \* hot store: committed progress of the execution stage
    historyV3,     \* hot store: kvcfg.HistoryV3
    metaSegs,      \* hot store: segment file list written by WriteSnapshots
    metaHist,      \* hot store: history file list written by WriteSnapshots
    segs,          \* segment files on disk, each <<from, to>>
    histFiles,     \* history files on disk, each [lo, hi, wm]
    openSegs,      \* the files the opened RoSnapshots sees
    pc,            \* position of the controller
    from, to, every, \* the flags of the invocation
    i,             \* cursor of the block loop
    j,             \* counter of the history prune loop
    err,           \* result of the command: "nil", "error"
    aggTxNum,      \* agg.txNum, the watermark
    wmSet,         \* SetTxNum was called in this invocation
    progRead,      \* the execution progress read in this invocation
    dumped,        \* ranges handed to RetireBlocks in this invocation
    txPrunes,      \* prune batches inside the latest read-write transaction
    txMeta,        \* the latest read-write transaction wrote the metadata
    run,           \* invocations started
    prev,          \* the stores when the current invocation started
    envChanged,    \* the node made progress between invocations
    readFailed,    \* GetStageProgress failed in this invocation (ignored)
    idle,          \* passes of the current history prune phase that found nothing to prune
    segSize,       \* create: the segment.size flag
    last,          \* create: the upper block snapshotBlocks selected
    dumpReq,       \* create: the arguments handed to DumpBlocks
    dumpFailed,    \* create: snapshotBlocks returned an error
    ioLog,         \* create: the I/O calls made so far, in order
    rebuild,       \* index: the rebuild flag
    segIdx,        \* index: segment files that have their index
    histIdx,       \* index: history files that have their index
    idxFailed,     \* index: an index build phase failed
    ranAfterFail,  \* index: a phase ran after a failed one
    records,       \* codec: the records the input stream was encoded from
    cut,           \* codec: bytes missing at the end of the input stream
    tail,          \* codec: bytes that follow the records on the input stream
    stdin,         \* codec: the bytes on standard input of compress
    rpos,          \* codec: bytes of stdin consumed
    bufLen,        \* codec: len(buf) of doCompress
    bufCap,        \* codec: cap(buf) of doCompress
    words,         \* codec: the words added to the compressor
    sealed,        \* codec: c.Compress() has sealed the file
    file,          \* codec: the words of the sealed file
    gpos,          \* codec: words the getter of doUncompress has returned
    wbuf,          \* codec: the bytes buffered in the writer wr of doUncompress
    stdout,        \* codec: the bytes os.Stdout has received
    emitted,       \* codec: the (length, bytes) pairs uncompress wrote to wr
    tx,            \* block prune: the open read-write transaction, its view of the rows
    calls,         \* block prune: PruneAncientBlocks calls returned in the transaction
    cancelled,     \* the context of the invocation is cancelled
    sinceCancel,   \* block prune: calls started after the cancellation
    tracer,        \* access list tracer: "none" before NewAccessListTracer, then "ready"
    excl,          \* access list tracer: a.excl, the addresses to exclude
    list,          \* access list tracer: a.list, address -> set of slots
    recorded,      \* access list tracer: the (address, slot) pairs recorded so far
    touched,       \* access list tracer: the addresses named by tuples and opcodes
    events         \* access list tracer: CaptureState events delivered

storeVars == <<blocks, histRows, execProgress, historyV3, metaSegs, metaHist,
               segs, histFiles, openSegs>>
ctlVars == <<pc, from, to, every, i, j, err, aggTxNum, wmSet, progRead>>
ghostVars == <<dumped, txPrunes, txMeta, run, prev, envChanged, readFailed,
               idle>>
createVars == <<segSize, last, dumpReq, dumpFailed, ioLog>>
indexVars == <<rebuild, segIdx, histIdx, idxFailed, ranAfterFail>>
codecVars == <<records, cut, tail, stdin, rpos, bufLen, bufCap, words, sealed, file,
               gpos, wbuf, stdout, emitted>>
txVars == <<tx, calls>>
cancelVars == <<cancelled, sinceCancel>>
tracerVars == <<tracer, excl, list, recorded, touched, events>>
vars == <<storeVars, ctlVars, ghostVars, createVars, indexVars, codecVars,
          txVars, cancelVars, tracerVars>>
\* What the create command never touches.
nonCreateVars == <<histRows, execProgress, historyV3, every, i, aggTxNum, wmSet,
                   progRead, dumped, txPrunes, txMeta, run, envChanged, idle,
                   readFailed, indexVars, codecVars, txVars, cancelVars,
                   tracerVars>>
\* What the retire command never touches.
nonRetireVars == <<createVars, indexVars, codecVars, txVars, cancelVars,
                   tracerVars>>
\* What the index command never touches.
nonIndexVars == <<blocks, histRows, execProgress, historyV3, metaSegs, metaHist,
                  segs, histFiles, openSegs, to, every, i, aggTxNum, wmSet,
                  progRead, ghostVars, createVars, codecVars, txVars,
                  cancelVars, tracerVars>>
\* What compress and uncompress never touch.
nonCodecVars == <<storeVars, from, to, every, i, aggTxNum, wmSet, progRead,
                  ghostVars, createVars, indexVars, txVars, cancelVars,
                  tracerVars>>

\* ----------------------------------------------------------------- helpers
Min(a, b) == IF a < b THEN a ELSE b

\* i + every on uint64
Add64(a, b) == (a + b) % UintMod

\* A block is captured when some segment file covers it.
Captured(b, files) == \E s \in files : s[1] <= b /\ b < s[2]

\* The n smallest elements of a finite set of numbers.
RECURSIVE Lowest(_, _)
Lowest(S, n) ==
    IF n = 0 \/ S = {} THEN {}
    ELSE LET m == CHOOSE x \in S : \A y \in S : x <= y
         IN {m} \cup Lowest(S \ {m}, n - 1)

\* rawdb.TxNums.Max(tx, blockNum): the last transaction number of a block.
TxNumsMax(b) == (b + 1) * TxsPerBlock - 1

\* ------------------------------------------------ block retire (snapshotsync)
\* br.RetireBlocks(ctx, lo, hi): one segment file covering the sub-range; a file
\* that is already there is kept.
RetireBlocks(files, lo, hi) == IF lo < hi THEN files \cup {<<lo, hi>>} ELSE files

\* br.PruneAncientBlocks(tx): deletes at most PruneBudget rows, lowest first,
\* among the rows that are present and captured in a segment.
PruneAncientBlocks(rows, files) ==
    rows \ Lowest({b \in rows : Captured(b, files)}, PruneBudget)

\* The loop  for j := 0; j < 10_000; j++ { br.PruneAncientBlocks(tx) }  of one
\* transaction.  A call that deletes nothing leaves nothing for the calls after
\* it, so the iteration stops at the first such call.
RECURSIVE PruneLoop(_, _, _)
PruneLoop(rows, files, n) ==
    IF n = PruneIters THEN rows
    ELSE LET r == PruneAncientBlocks(rows, files)
         IN IF r = rows THEN rows ELSE PruneLoop(r, files, n + 1)

\* ------------------------------------------------- history aggregator (agg)
\* agg.Files(): the ranges of the history files.
AggFiles(files) == {<<f.lo, f.hi>> : f \in files}

StepCovered(s, files) == \E f \in files : f.lo <= s /\ s < f.hi

\* agg.BuildFiles: one file for every step that lies fully below the watermark
\* and has no file yet.
BuildFiles(files, wm) ==
    files \cup {[lo |-> s, hi |-> s + 1, wm |-> wm] :
                  s \in {x \in 0..(wm \div AggStep) :
                           (x + 1) * AggStep <= wm /\ ~StepCovered(x, files)}}

\* agg.MergeLoop: while two adjacent files of the same width exist, the lowest
\* such pair is replaced by one file covering both.  The merged file is a new
\* file: it carries the watermark wm in force when the merge creates it.
MergePairs(files) ==
    {p \in files \X files :
        p[1].hi = p[2].lo /\ p[1].hi - p[1].lo = p[2].hi - p[2].lo}

RECURSIVE MergeLoop(_, _)
MergeLoop(files, wm) ==
    IF MergePairs(files) = {} THEN files
    ELSE LET p == CHOOSE q \in MergePairs(files) :
                     \A r \in MergePairs(files) : q[1].lo <= r[1].lo
         IN MergeLoop((files \ {p[1], p[2]})
                        \cup {[lo |-> p[1].lo, hi |-> p[2].hi, wm |-> wm]}, wm)

\* agg.Prune(ctx, limit): deletes at most limit history rows, lowest first,
\* among the rows captured by a history file.
AggPrune(rows, files, limit) ==
    rows \ Lowest({t \in rows : StepCovered(t \div AggStep, files)}, limit)

\* ------------------------------------------------------------------- Init
StoreInit ==
    /\ blocks = 0..MaxBlock
    /\ execProgress \in 0..MaxBlock
    /\ historyV3 \in BOOLEAN
    /\ histRows = IF historyV3 THEN 0..TxNumsMax(execProgress) ELSE {}
    /\ metaSegs = {}
    /\ metaHist = {}
    /\ segs = {}
    /\ histFiles = {}
    /\ openSegs = {}

CtlInit ==
    /\ pc = "idle"
    /\ from = 0 /\ to = 0 /\ every = 0
    /\ i = 0 /\ j = 0
    /\ err = "nil"
    /\ aggTxNum = 0
    /\ wmSet = FALSE
    /\ progRead = 0
    /\ dumped = <<>>
    /\ txPrunes = 0
    /\ txMeta = FALSE
    /\ idle = 0
    /\ run = 0
    /\ prev = [segs |-> {}, blocks |-> {}, histRows |-> {},
               metaSegs |-> {}, metaHist |-> {}, histFiles |-> {}, ok |-> FALSE]
    /\ envChanged = FALSE
    /\ readFailed = FALSE

CreateOff ==
    /\ segSize = 0
    /\ last = 0
    /\ dumpReq = <<>>
    /\ dumpFailed = FALSE
    /\ ioLog = <<>>

IndexOff ==
    /\ rebuild = FALSE
    /\ segIdx = {}
    /\ histIdx = {}
    /\ idxFailed = FALSE
    /\ ranAfterFail = FALSE

CodecOff ==
    /\ records = <<>>
    /\ cut = 0
    /\ tail = <<>>
    /\ stdin = <<>>
    /\ rpos = 0
    /\ bufLen = 0
    /\ bufCap = 0
    /\ words = <<>>
    /\ sealed = FALSE
    /\ file = <<>>
    /\ gpos = 0
    /\ wbuf = <<>>
    /\ stdout = <<>>
    /\ emitted = <<>>

\* No read-write transaction is open.
TxNone == [open |-> FALSE, rows |-> {}, metaSegs |-> {}, metaHist |-> {}]

TxOff ==
    /\ tx = TxNone
    /\ calls = 0
    /\ cancelled = FALSE
    /\ sinceCancel = 0

\* No access list tracer has been constructed.
TracerOff ==
    /\ tracer = "none"
    /\ excl = {}
    /\ list = <<>>
    /\ recorded = {}
    /\ touched = {}
    /\ events = 0

Init == StoreInit /\ CtlInit /\ CreateOff /\ IndexOff /\ CodecOff /\ TxOff
        /\ TracerOff

\* ----------------------------------------------------------------- retire
\* The command returns: the deferred calls run, the result is err.
Return(e) ==
    /\ pc' = "done"
    /\ err' = e
    /\ j' = 0

\* doRetireCommand up to the block loop: the flags are read, the snapshots are
\* reopened from the file list stored in the db, the aggregator is created with
\* txNum 0 and reopens its files.  A second invocation repeats the flags.
Retire_Start(f, t, e) ==
    /\ pc \in {"idle", "done", "panic"}
    /\ run < MaxRuns
    /\ run > 0 => (f = from /\ t = to /\ e = every)
    /\ from' = f /\ to' = t /\ every' = e
    /\ i' = f
    /\ j' = 0
    /\ err' = "nil"
    /\ openSegs' = metaSegs \cap segs
    /\ aggTxNum' = 0
    /\ wmSet' = FALSE
    /\ progRead' = 0
    /\ dumped' = <<>>
    /\ txPrunes' = 0
    /\ txMeta' = FALSE
    /\ idle' = 0
    /\ run' = run + 1
    /\ prev' = [segs |-> segs, blocks |-> blocks, histRows |-> histRows,
                metaSegs |-> metaSegs, metaHist |-> metaHist,
                histFiles |-> histFiles,
                ok |-> (pc = "done" /\ err = "nil" /\ ~readFailed)]
    /\ readFailed' = FALSE
    /\ pc' = "loop"
    /\ UNCHANGED <<blocks, histRows, execProgress, historyV3, metaSegs, metaHist,
                   segs, histFiles, envChanged>>
    /\ cancelled' = FALSE
    /\ sinceCancel' = 0
    /\ UNCHANGED <<tracerVars, createVars, indexVars, codecVars, txVars>>

\* snapshots.ReopenWithDB, NewAggregator22 or agg.ReopenFiles returns an error.
Retire_OpenFail ==
    /\ pc = "loop"
    /\ i = from
    /\ dumped = <<>>
    /\ Return("error")
    /\ UNCHANGED <<storeVars, from, to, every, i, aggTxNum, wmSet, progRead,
                   ghostVars>>
    /\ UNCHANGED nonRetireVars

\* br.RetireBlocks(ctx, i, i+every) of one pass of  for i := from; i < to; i += every
\* It takes the context: under a cancelled context it does not succeed.
Retire_Dump ==
    /\ pc = "loop"
    /\ i < to
    /\ ~cancelled
    /\ Len(dumped) < MaxDumps
    /\ segs' = RetireBlocks(segs, i, Add64(i, every))
    /\ openSegs' = segs'
    /\ dumped' = Append(dumped, <<i, Add64(i, every)>>)
    /\ pc' = "update"
    /\ UNCHANGED <<blocks, histRows, execProgress, historyV3, metaSegs, metaHist,
                   histFiles, from, to, every, i, j, err, aggTxNum, wmSet,
                   progRead, txPrunes, txMeta, run, prev, envChanged, readFailed, idle>>
    /\ UNCHANGED nonRetireVars

\* br.RetireBlocks returns an error: panic(err).
Retire_DumpFail ==
    /\ pc = "loop"
    /\ i < to
    /\ Len(dumped) < MaxDumps
    /\ dumped' = Append(dumped, <<i, Add64(i, every)>>)
    /\ pc' = "panic"
    /\ UNCHANGED <<storeVars, from, to, every, i, j, err, aggTxNum, wmSet,
                   progRead, txPrunes, txMeta, run, prev, envChanged, readFailed, idle>>
    /\ UNCHANGED nonRetireVars

\* db.Update of one pass: WriteSnapshots, then 10_000 calls of PruneAncientBlocks,
\* all in the one transaction, which commits; then i += every.
Retire_Update ==
    /\ pc = "update"
    /\ metaSegs' = openSegs
    /\ metaHist' = AggFiles(histFiles)
    /\ blocks' = PruneLoop(blocks, openSegs, 0)
    /\ txPrunes' = PruneIters
    /\ txMeta' = TRUE
    /\ i' = Add64(i, every)
    /\ pc' = "loop"
    /\ UNCHANGED <<histRows, execProgress, historyV3, segs, histFiles, openSegs,
                   from, to, every, j, err, aggTxNum, wmSet, progRead, dumped,
                   run, prev, envChanged, readFailed, idle>>
    /\ UNCHANGED nonRetireVars

\* WriteSnapshots, a PruneAncientBlocks call or the commit fails: the
\* transaction is rolled back and the command returns the error.
Retire_UpdateFail ==
    /\ pc = "update"
    /\ Return("error")
    /\ UNCHANGED <<storeVars, from, to, every, i, aggTxNum, wmSet, progRead,
                   ghostVars>>
    /\ UNCHANGED nonRetireVars

\* The block loop is over.  if !kvcfg.HistoryV3.FromDB(db) { return nil }
Retire_LoopExit ==
    /\ pc = "loop"
    /\ ~(i < to)
    /\ IF historyV3
         THEN pc' = "prune1" /\ j' = 0 /\ err' = err
         ELSE Return("nil")
    /\ UNCHANGED <<storeVars, from, to, every, i, aggTxNum, wmSet, progRead,
                   ghostVars>>
    /\ UNCHANGED nonRetireVars

ToPrune == {t \in histRows : StepCovered(t \div AggStep, histFiles)}

\* One pass of  for i := 0; i < 1024; i++ { db.Update(agg.SetTx; agg.Prune) }
\* that finds rows to prune: one transaction, committed.
Retire_HistPrune ==
    /\ pc \in {"prune1", "prune2"}
    /\ j < HistPruneIters
    /\ ToPrune # {}
    /\ histRows' = AggPrune(histRows, histFiles, AggStep)
    /\ j' = j + 1
    /\ txPrunes' = 1
    /\ txMeta' = FALSE
    /\ idle' = 0
    /\ UNCHANGED <<blocks, execProgress, historyV3, metaSegs, metaHist, segs,
                   histFiles, openSegs, pc, from, to, every, i, err, aggTxNum,
                   wmSet, progRead, dumped, run, prev, envChanged, readFailed>>
    /\ UNCHANGED nonRetireVars

\* One pass of the loop when no row is left to prune: a transaction of its
\* own that deletes nothing and commits; the loop goes on to the next pass.
Retire_HistPruneIdle ==
    /\ pc \in {"prune1", "prune2"}
    /\ j < HistPruneIters
    /\ ToPrune = {}
    /\ j' = j + 1
    /\ txPrunes' = 1
    /\ txMeta' = FALSE
    /\ idle' = IF j = 0 THEN 1 ELSE idle + 1
    /\ UNCHANGED <<storeVars, pc, from, to, every, i, err, aggTxNum, wmSet,
                   progRead, dumped, run, prev, envChanged, readFailed>>
    /\ UNCHANGED nonRetireVars

\* A pass of the prune loop fails: the command returns the error.
Retire_HistPruneFail ==
    /\ pc \in {"prune1", "prune2"}
    /\ j < HistPruneIters
    /\ Return("error")
    /\ UNCHANGED <<storeVars, from, to, every, i, aggTxNum, wmSet, progRead,
                   ghostVars>>
    /\ UNCHANGED nonRetireVars

\* The prune loop has run its 1024 passes.
Retire_HistPruneDone ==
    /\ pc \in {"prune1", "prune2"}
    /\ j = HistPruneIters
    /\ IF pc = "prune1"
         THEN pc' = "indices" /\ j' = 0 /\ err' = err
         ELSE Return("nil")
    /\ UNCHANGED <<storeVars, from, to, every, i, aggTxNum, wmSet, progRead,
                   ghostVars>>
    /\ UNCHANGED nonRetireVars

\* agg.BuildMissedIndices(ctx, sem)
Retire_BuildMissedIndices ==
    /\ pc = "indices"
    /\ \/ pc' = "watermark" /\ UNCHANGED <<err, j>>
       \/ Return("error")
    /\ UNCHANGED <<storeVars, from, to, every, i, aggTxNum, wmSet, progRead,
                   ghostVars>>
    /\ UNCHANGED nonRetireVars

\* db.View: execProgress, _ := GetStageProgress (an error reads as 0);
\* lastTxNum := TxNums.Max(tx, execProgress); agg.SetTxNum(lastTxNum)
Retire_Watermark ==
    /\ pc = "watermark"
    /\ \E ok \in BOOLEAN :
         /\ progRead' = IF ok THEN execProgress ELSE 0
         /\ readFailed' = ~ok
    /\ aggTxNum' = TxNumsMax(progRead')
    /\ wmSet' = TRUE
    /\ pc' = "buildFiles"
    /\ UNCHANGED <<storeVars, from, to, every, i, j, err, dumped, txPrunes,
                   txMeta, run, prev, envChanged, idle>>
    /\ UNCHANGED nonRetireVars

\* TxNums.Max returns an error: the view fails, SetTxNum is not called.
Retire_WatermarkFail ==
    /\ pc = "watermark"
    /\ Return("error")
    /\ UNCHANGED <<storeVars, from, to, every, i, aggTxNum, wmSet, progRead,
                   ghostVars>>
    /\ UNCHANGED nonRetireVars

\* agg.BuildFiles(ctx, db)
Retire_BuildFiles ==
    /\ pc = "buildFiles"
    /\ \/ /\ histFiles' = BuildFiles(histFiles, aggTxNum)
          /\ pc' = "merge"
          /\ UNCHANGED <<err, j>>
       \/ /\ Return("error")
          /\ UNCHANGED histFiles
    /\ UNCHANGED <<blocks, histRows, execProgress, historyV3, metaSegs, metaHist,
                   segs, openSegs, from, to, every, i, aggTxNum, wmSet, progRead,
                   ghostVars>>
    /\ UNCHANGED nonRetireVars

\* agg.MergeLoop(ctx, workers)
Retire_MergeLoop ==
    /\ pc = "merge"
    /\ \/ /\ histFiles' = MergeLoop(histFiles, aggTxNum)
          /\ pc' = "prune2"
          /\ j' = 0
          /\ UNCHANGED err
       \/ /\ Return("error")
          /\ UNCHANGED histFiles
    /\ UNCHANGED <<blocks, histRows, execProgress, historyV3, metaSegs, metaHist,
                   segs, openSegs, from, to, every, i, aggTxNum, wmSet, progRead,
                   ghostVars>>
    /\ UNCHANGED nonRetireVars

\* Between two invocations the node executes or unwinds blocks: the execution
\* progress moves and the history rows follow it.
Env_Advance ==
    /\ pc = "done"
    /\ run < MaxRuns
    /\ historyV3
    /\ \E p \in 0..MaxBlock :
         /\ p # execProgress
         /\ execProgress' = p
         /\ histRows' = {t \in histRows : t <= TxNumsMax(p)}
                          \cup {t \in 0..TxNumsMax(p) : t > TxNumsMax(execProgress)}
    /\ envChanged' = TRUE
    /\ UNCHANGED <<blocks, historyV3, metaSegs, metaHist, segs, histFiles,
                   openSegs, ctlVars, dumped, txPrunes, txMeta, run, prev,
                   readFailed, idle>>
    /\ UNCHANGED nonRetireVars

\* The flag triples <<from, to, every>> of the invocations followed through
\* the history phases: to = 0, every = 0, every dividing to - from and not,
\* from above 0.
RetireFlags ==
    {<<0, 0, 1>>, <<0, 1, 0>>, <<0, 1, 1>>, <<0, 1, 2>>, <<0, 3, 2>>, <<1, 3, 1>>}

RetireNext ==
    \/ \E x \in RetireFlags : Retire_Start(x[1], x[2], x[3])
    \/ Retire_OpenFail
    \/ Retire_Dump
    \/ Retire_DumpFail
    \/ Retire_Update
    \/ Retire_UpdateFail
    \/ Retire_LoopExit
    \/ Retire_HistPrune
    \/ Retire_HistPruneIdle
    \/ Retire_HistPruneFail
    \/ Retire_HistPruneDone
    \/ Retire_BuildMissedIndices
    \/ Retire_Watermark
    \/ Retire_WatermarkFail
    \/ Retire_BuildFiles
    \/ Retire_MergeLoop
    \/ Env_Advance

SpecRetire == Init /\ [][RetireNext]_vars

\* ----------------------------------------------------------------- create
\* The flags and hot stores of the create runs.
CreateFroms == {0, 1000}
CreateTos == {0, 1000, 1500, 2000}
SegSizes == {999, 1000, 1500}
CreateLasts == {0, 2500, 89999, 90000, 90001, 91000, 91500}

\* last - params.FullImmutabilityThreshold, last % blocksPerFile on uint64
Sub64(a, b) == (a - b + UintMod) % UintMod

\* c.Last() on kv.BlockBody: the highest block number stored.
\* The highest element of rows in lo..hi, found by bisection; rows has one.
RECURSIVE MaxIn(_, _, _)
MaxIn(rows, lo, hi) ==
    IF lo = hi THEN lo
    ELSE LET mid == (lo + hi + 1) \div 2
         IN IF \E x \in rows : x >= mid
              THEN MaxIn(rows, mid, hi)
              ELSE MaxIn(rows, lo, mid - 1)

LastKey(rows) == MaxIn(rows, 0, UintMod - 1)

\* A lastChunk that subtracts the margin without comparing first.
lastChunk_NoGuard(k, blocksPerFile) ==
    LET l == Sub64(k, FullImmutabilityThreshold)
    IN Sub64(l, l % blocksPerFile)

\* lastChunk of snapshotBlocks, on the key k that c.Last() returned.
lastChunk(k, blocksPerFile) ==
    LET l == IF k > FullImmutabilityThreshold
               THEN Sub64(k, FullImmutabilityThreshold)
               ELSE 0
    IN Sub64(l, l % blocksPerFile)

\* snapshotsync.DumpBlocks(ctx, lo, hi, blocksPerFile, ...): the files of
\* [lo, hi), each blocksPerFile wide except the last, which ends at hi.
DumpBlocks(lo, hi, blocksPerFile) ==
    IF hi <= lo THEN {}
    ELSE {<<lo + k * blocksPerFile, Min(lo + (k + 1) * blocksPerFile, hi)>> :
            k \in 0..((hi - lo - 1) \div blocksPerFile)}

CreateStoreInit ==
    /\ \/ blocks = {}
       \/ \E l \in CreateLasts : blocks = 0..l
    /\ execProgress = 0
    /\ historyV3 = FALSE
    /\ histRows = {}
    /\ metaSegs = {}
    /\ metaHist = {}
    /\ segs = {}
    /\ histFiles \in {{}, {[lo |-> 0, hi |-> 1, wm |-> AggStep]}}
    /\ openSegs = {}

CreateInit ==
    CreateStoreInit /\ CtlInit /\ CreateOff /\ IndexOff /\ CodecOff /\ TxOff
    /\ TracerOff

\* A start that makes the directories and opens the hot store before it looks
\* at the segment size.
Create_Start_CheckLate(f, t, s) ==
    /\ pc = "idle"
    /\ from' = f /\ to' = t /\ segSize' = s
    /\ prev' = [prev EXCEPT !.blocks = blocks, !.segs = segs]
    /\ ioLog' = <<"MustExist", "MustOpen">>
    /\ IF s < MinSegmentSize
         THEN Return("error")
         ELSE pc' = "snapshotBlocks" /\ UNCHANGED <<err, j>>
    /\ UNCHANGED <<storeVars, last, dumpReq, dumpFailed, nonCreateVars>>

\* doSnapshotCommand up to the call of snapshotBlocks: the flags are read and
\* a segment size below 1000 is refused; then dir.MustExist makes the
\* directories and MustOpen opens the hot store.
Create_Start(f, t, s) ==
    /\ pc = "idle"
    /\ from' = f /\ to' = t /\ segSize' = s
    /\ prev' = [prev EXCEPT !.blocks = blocks, !.segs = segs]
    /\ IF s < MinSegmentSize
         THEN Return("error") /\ UNCHANGED ioLog
         ELSE /\ pc' = "snapshotBlocks"
              /\ ioLog' = <<"MustExist", "MustOpen">>
              /\ UNCHANGED <<err, j>>
    /\ UNCHANGED <<storeVars, last, dumpReq, dumpFailed, nonCreateVars>>

\* A selection that takes toBlock + 1 as the upper block.
Create_SelectRange_OffByOne ==
    /\ pc = "snapshotBlocks"
    /\ to > 0 \/ blocks # {}
    /\ last' = IF to > 0 THEN to + 1
                         ELSE lastChunk(LastKey(blocks), segSize)
    /\ ioLog' = IF to > 0 THEN ioLog ELSE Append(ioLog, "View")
    /\ pc' = "dumpBlocks"
    /\ UNCHANGED <<storeVars, from, to, j, err, prev, segSize, dumpReq,
                   dumpFailed, nonCreateVars>>

\* snapshotBlocks, the selection of the upper block: toBlock when it is set,
\* else lastChunk on the last key of kv.BlockBody, read in a view.
Create_SelectRange ==
    /\ pc = "snapshotBlocks"
    /\ to > 0 \/ blocks # {}
    /\ last' = IF to > 0 THEN to
                         ELSE lastChunk(LastKey(blocks), segSize)
    /\ ioLog' = IF to > 0 THEN ioLog ELSE Append(ioLog, "View")
    /\ pc' = "dumpBlocks"
    /\ UNCHANGED <<storeVars, from, to, j, err, prev, segSize, dumpReq,
                   dumpFailed, nonCreateVars>>

\* c.Last() on an empty kv.BlockBody returns no key and
\* binary.BigEndian.Uint64(k) panics on it.
Create_SelectRangePanic ==
    /\ pc = "snapshotBlocks"
    /\ to = 0
    /\ blocks = {}
    /\ ioLog' = Append(ioLog, "View")
    /\ pc' = "panic"
    /\ UNCHANGED <<storeVars, from, to, j, err, prev, segSize, last, dumpReq,
                   dumpFailed, nonCreateVars>>

\* The view of lastChunk fails: snapshotBlocks returns the error, which
\* doSnapshotCommand logs.
Create_SelectRangeFail ==
    /\ pc = "snapshotBlocks"
    /\ to = 0
    /\ dumpFailed' = TRUE
    /\ ioLog' = Append(ioLog, "View")
    /\ pc' = "reopen"
    /\ UNCHANGED <<storeVars, from, to, j, err, prev, segSize, last, dumpReq,
                   nonCreateVars>>

\* snapshotsync.DumpBlocks(ctx, fromBlock, last, blocksPerFile, ...) succeeds.
Create_DumpBlocks ==
    /\ pc = "dumpBlocks"
    /\ dumpReq' = <<from, last, segSize>>
    /\ ioLog' = Append(ioLog, "DumpBlocks")
    /\ segs' = segs \cup DumpBlocks(from, last, segSize)
    /\ pc' = "reopen"
    /\ UNCHANGED <<blocks, histRows, execProgress, historyV3, metaSegs, metaHist,
                   histFiles, openSegs, from, to, j, err, prev, segSize, last,
                   dumpFailed, nonCreateVars>>

\* DumpBlocks fails after k files: snapshotBlocks returns the wrapped error,
\* which doSnapshotCommand logs.
Create_DumpBlocksFail ==
    /\ pc = "dumpBlocks"
    /\ dumpReq' = <<from, last, segSize>>
    /\ ioLog' = Append(ioLog, "DumpBlocks")
    /\ \E k \in 0..Cardinality(DumpBlocks(from, last, segSize)) :
         segs' = segs \cup {f \in DumpBlocks(from, last, segSize) :
                              f[1] < from + k * segSize}
    /\ dumpFailed' = TRUE
    /\ pc' = "reopen"
    /\ UNCHANGED <<blocks, histRows, execProgress, historyV3, metaSegs, metaHist,
                   histFiles, openSegs, from, to, j, err, prev, segSize, last,
                   nonCreateVars>>

\* allSnapshots.ReopenFolder, NewAggregator22 and agg.ReopenFiles
Create_Reopen ==
    /\ pc = "reopen"
    /\ ioLog' = Append(ioLog, "ReopenFolder")
    /\ \/ /\ openSegs' = segs
          /\ pc' = "writeSnapshots"
          /\ UNCHANGED <<err, j>>
       \/ /\ Return("error")
          /\ UNCHANGED openSegs
    /\ UNCHANGED <<blocks, histRows, execProgress, historyV3, metaSegs, metaHist,
                   segs, histFiles, from, to, prev, segSize, last, dumpReq,
                   dumpFailed, nonCreateVars>>

\* db.Update(rawdb.WriteSnapshots(tx, allSnapshots.Files(), agg.Files()))
Create_WriteSnapshots ==
    /\ pc = "writeSnapshots"
    /\ ioLog' = Append(ioLog, "WriteSnapshots")
    /\ \/ /\ metaSegs' = openSegs
          /\ metaHist' = AggFiles(histFiles)
          /\ Return("nil")
       \/ /\ Return("error")
          /\ UNCHANGED <<metaSegs, metaHist>>
    /\ UNCHANGED <<blocks, histRows, execProgress, historyV3, segs, histFiles,
                   openSegs, from, to, prev, segSize, last, dumpReq,
                   dumpFailed, nonCreateVars>>

CreateNext ==
    \/ \E f \in CreateFroms, t \in CreateTos, s \in SegSizes : Create_Start(f, t, s)
    \/ Create_SelectRange
    \/ Create_SelectRangePanic
    \/ Create_SelectRangeFail
    \/ Create_DumpBlocks
    \/ Create_DumpBlocksFail
    \/ Create_Reopen
    \/ Create_WriteSnapshots

SpecCreate == CreateInit /\ [][CreateNext]_vars

\* ------------------------------------------------------------------ index
\* The data directory of the index runs: one segment file per block, two
\* history files, any of them with or without its index.
IndexStoreInit ==
    /\ blocks = 0..MaxBlock
    /\ execProgress = MaxBlock
    /\ historyV3 = FALSE
    /\ histRows = {}
    /\ segs = {<<k, k + 1>> : k \in 0..(MaxBlock - 1)}
    /\ histFiles = {[lo |-> 0, hi |-> 2, wm |-> 2 * AggStep],
                    [lo |-> 2, hi |-> 3, wm |-> 3 * AggStep]}
    /\ metaSegs = segs
    /\ metaHist = AggFiles(histFiles)
    /\ openSegs = {}

IndexInit ==
    /\ IndexStoreInit /\ CtlInit /\ CreateOff /\ CodecOff /\ TxOff /\ TracerOff
    /\ rebuild = FALSE
    /\ segIdx \in SUBSET segs
    /\ histIdx \in SUBSET AggFiles(histFiles)
    /\ idxFailed = FALSE
    /\ ranAfterFail = FALSE

\* doIndicesCommand up to rebuildIndices: the flags are read, the db is opened;
\* if rebuild { panic("not implemented") }
Index_Start(r, f) ==
    /\ pc = "idle"
    /\ rebuild' = r
    /\ from' = f
    /\ pc' = IF r THEN "panic" ELSE "rebuildIndices"
    /\ UNCHANGED <<j, err, segIdx, histIdx, idxFailed, ranAfterFail,
                   nonIndexVars>>

\* rebuildIndices succeeds: ReopenFolder, then snapshotsync.BuildMissedIndices
\* gives every segment file its index.
Index_RebuildIndices ==
    /\ pc = "rebuildIndices"
    /\ segIdx' = segs
    /\ pc' = "aggOpen"
    /\ UNCHANGED <<from, j, err, rebuild, histIdx, idxFailed, ranAfterFail,
                   nonIndexVars>>

\* rebuildIndices returns an error (ReopenFolder failed, or an index task
\* failed after others had finished): doIndicesCommand logs it and goes on.
Index_RebuildIndicesFail ==
    /\ pc = "rebuildIndices"
    /\ \E built \in SUBSET (segs \ segIdx) :
         /\ built # segs \ segIdx \/ built = {}
         /\ segIdx' = segIdx \cup built
    /\ idxFailed' = TRUE
    /\ pc' = "aggOpen"
    /\ UNCHANGED <<from, j, err, rebuild, histIdx, ranAfterFail, nonIndexVars>>

\* libstate.NewAggregator22 and agg.ReopenFiles
Index_AggOpen ==
    /\ pc = "aggOpen"
    /\ ranAfterFail' = idxFailed
    /\ \/ pc' = "aggIndices" /\ UNCHANGED <<err, j>>
       \/ Return("error")
    /\ UNCHANGED <<from, rebuild, segIdx, histIdx, idxFailed, nonIndexVars>>

\* agg.BuildMissedIndices(ctx, sem) succeeds: return nil
Index_AggBuildMissedIndices ==
    /\ pc = "aggIndices"
    /\ histIdx' = AggFiles(histFiles)
    /\ Return("nil")
    /\ UNCHANGED <<from, rebuild, segIdx, idxFailed, ranAfterFail, nonIndexVars>>

\* agg.BuildMissedIndices fails after some of its tasks finished: return err
Index_AggBuildMissedIndicesFail ==
    /\ pc = "aggIndices"
    /\ \E built \in SUBSET (AggFiles(histFiles) \ histIdx) :
         /\ built # AggFiles(histFiles) \ histIdx \/ built = {}
         /\ histIdx' = histIdx \cup built
    /\ idxFailed' = TRUE
    /\ Return("error")
    /\ UNCHANGED <<from, rebuild, segIdx, ranAfterFail, nonIndexVars>>

IndexNext ==
    \/ \E r \in BOOLEAN, f \in 0..MaxFrom : Index_Start(r, f)
    \/ Index_RebuildIndices
    \/ Index_RebuildIndicesFail
    \/ Index_AggOpen
    \/ Index_AggBuildMissedIndices
    \/ Index_AggBuildMissedIndicesFail

SpecIndex == IndexInit /\ [][IndexNext]_vars

\* --------------------------------------------------- compress and uncompress
\* binary.PutUvarint(numBuf[:], x): seven bits a byte, low bits first, the top
\* bit set on every byte but the last.
RECURSIVE PutUvarint(_)
PutUvarint(x) ==
    IF x < 128 THEN <<x>>
    ELSE <<(x % 128) + 128>> \o PutUvarint(x \div 128)

\* Lengths below ExactBelow (four length bytes) are kept exactly; a longer
\* length is kept by its magnitude, which is all the code looks at before it
\* fails: 1 for ExactBelow .. 2^48 - 1, 2 for 2^48 .. 2^63 - 1, 3 for 2^63 and
\* more.
ExactBelow == 128 * 128 * 128 * 128

\* The magnitude that the seven bits d at byte k of a uvarint give the value.
Magnitude(k, d) ==
    IF d = 0 \/ k < 4 THEN 0
    ELSE IF k = 9 THEN 3
    ELSE IF k >= 7 \/ (k = 6 /\ d >= 64) THEN 2
    ELSE 1

Max(a, b) == IF a > b THEN a ELSE b

RECURSIVE Pow128(_)
Pow128(k) == IF k = 0 THEN 1 ELSE 128 * Pow128(k - 1)

\* The value with the seven bits d at byte k or-ed in (its part below
\* ExactBelow).
OrBits(x, k, d) == IF k < 4 THEN x + d * Pow128(k) ELSE x

\* binary.ReadUvarint(r) on the bytes of s after position pos: k bytes are read
\* so far, x is the value so far and mag its magnitude.
RECURSIVE ReadUvarintFrom(_, _, _, _, _)
ReadUvarintFrom(s, pos, k, x, mag) ==
    IF k = MaxVarintLen64 THEN [err |-> "overflow", val |-> x, mag |-> mag, n |-> k]
    ELSE IF pos + k + 1 > Len(s)
      THEN [err |-> IF k > 0 THEN "ErrUnexpectedEOF" ELSE "EOF",
            val |-> x, mag |-> mag, n |-> k]
    ELSE LET b == s[pos + k + 1]
         IN IF b < 128
              THEN IF k = MaxVarintLen64 - 1 /\ b > 1
                     THEN [err |-> "overflow", val |-> x, mag |-> mag, n |-> k + 1]
                     ELSE [err |-> "nil", val |-> OrBits(x, k, b),
                           mag |-> Max(mag, Magnitude(k, b)), n |-> k + 1]
              ELSE ReadUvarintFrom(s, pos, k + 1, OrBits(x, k, b - 128),
                                   Max(mag, Magnitude(k, b - 128)))

ReadUvarint(s, pos) == ReadUvarintFrom(s, pos, 0, 0, 0)

\* if cap(buf) < int(l) { buf = make([]byte, l) } else { buf = buf[:l] }
\* on the length l that ReadUvarint returned.  From 2^63 on int(l) is negative
\* and buf[:l] is out of range; from 2^48 on make refuses the length; both
\* panic.  A large length below that is allocated; no stream of the model
\* fills it.
ResizeBuf(len, cap, l) ==
    IF l.mag = 3 THEN [len |-> len, cap |-> cap, out |-> "panic"]
    ELSE IF l.mag = 2 THEN [len |-> len, cap |-> cap, out |-> "panic"]
    ELSE IF l.mag = 1 THEN [len |-> ExactBelow, cap |-> ExactBelow, out |-> "large"]
    ELSE IF cap < l.val THEN [len |-> l.val, cap |-> l.val, out |-> "ok"]
    ELSE [len |-> l.val, cap |-> cap, out |-> "ok"]

\* The stream format: every record as its uvarint length and its bytes.
RECURSIVE Encode(_)
Encode(recs) ==
    IF recs = <<>> THEN <<>>
    ELSE PutUvarint(Len(Head(recs))) \o Head(recs) \o Encode(Tail(recs))

\* The records of the input streams: the empty record, short ones, one whose
\* length takes two bytes, and one longer than the initial buffer.
Rec130 == [k \in 1..130 |-> (k * 37) % 256]
RecBig == [k \in 1..(InitBufCap + 1) |-> 7]
RecordPool == {<<>>, <<1>>, <<200, 0>>, Rec130}
RecordInputs ==
    UNION {[1..n -> RecordPool] : n \in 0..MaxRecs}
      \cup {<<<<1>>, RecBig>>, <<RecBig, <<200, 0>>>>}

\* What follows the records on a malformed stream: half a length prefix, the
\* lengths 2^28, 2^49 and 2^63 with no payload, a length of more than 64 bits,
\* and a prefix of ten bytes that never ends.
Tails ==
    {<<130>>,
     <<128, 128, 128, 128, 1>>,
     <<128, 128, 128, 128, 128, 128, 128, 1>>,
     <<128, 128, 128, 128, 128, 128, 128, 128, 128, 1>>,
     <<255, 255, 255, 255, 255, 255, 255, 255, 255, 2>>,
     <<128, 128, 128, 128, 128, 128, 128, 128, 128, 128>>}

CodecInit ==
    /\ StoreInit /\ historyV3 = FALSE /\ execProgress = 0
    /\ CtlInit /\ CreateOff /\ IndexOff /\ TxOff /\ TracerOff
    /\ records \in RecordInputs
    /\ cut \in 0..MaxCut
    /\ cut <= Len(Encode(records))
    /\ tail \in {<<>>} \cup Tails
    /\ cut > 0 => tail = <<>>
    /\ stdin = SubSeq(Encode(records), 1, Len(Encode(records)) - cut) \o tail
    /\ rpos = 0
    /\ bufLen = 0
    /\ bufCap = 0
    /\ words = <<>>
    /\ sealed = FALSE
    /\ file = <<>>
    /\ gpos = 0
    /\ wbuf = <<>>
    /\ stdout = <<>>
    /\ emitted = <<>>

\* doCompress up to its loop: compress.NewCompressor, the reader on stdin and
\* buf := make([]byte, 0, 1 MB)
Compress_Start ==
    /\ pc = "idle"
    /\ \/ /\ pc' = "compress"
          /\ bufLen' = 0
          /\ bufCap' = InitBufCap
          /\ UNCHANGED <<err, j>>
       \/ /\ Return("error")
          /\ UNCHANGED <<bufLen, bufCap>>
    /\ UNCHANGED <<records, cut, tail, stdin, rpos, words, sealed, file, gpos, wbuf, stdout,
                   emitted, nonCodecVars>>

\* One pass of the loop of doCompress: ReadUvarint gives l, buf is resized to
\* l, io.ReadFull fills it, c.AddWord(buf) takes it.
Compress_AddWord ==
    /\ pc = "compress"
    /\ LET r == ReadUvarint(stdin, rpos)
           b == ResizeBuf(bufLen, bufCap, r)
       IN /\ r.err = "nil"
          /\ b.out = "ok"
          /\ rpos + r.n + b.len <= Len(stdin)
          /\ words' = Append(words, SubSeq(stdin, rpos + r.n + 1, rpos + r.n + b.len))
          /\ rpos' = rpos + r.n + b.len
          /\ bufLen' = b.len
          /\ bufCap' = b.cap
    /\ UNCHANGED <<pc, j, err, records, cut, tail, stdin, sealed, file, gpos, wbuf, stdout,
                   emitted, nonCodecVars>>

\* io.ReadFull finds fewer bytes than the length announced: return err
Compress_ReadFullFail ==
    /\ pc = "compress"
    /\ LET r == ReadUvarint(stdin, rpos)
           b == ResizeBuf(bufLen, bufCap, r)
       IN /\ r.err = "nil"
          /\ b.out \in {"ok", "large"}
          /\ rpos + r.n + b.len > Len(stdin)
          /\ bufLen' = b.len
          /\ bufCap' = b.cap
    /\ rpos' = Len(stdin)
    /\ Return("error")
    /\ UNCHANGED <<records, cut, tail, stdin, words, sealed, file, gpos, wbuf, stdout,
                   emitted, nonCodecVars>>

\* The resize panics: buf[:l] out of range, or make with a length out of range.
Compress_ResizePanic ==
    /\ pc = "compress"
    /\ LET r == ReadUvarint(stdin, rpos)
           b == ResizeBuf(bufLen, bufCap, r)
       IN /\ r.err = "nil"
          /\ b.out = "panic"
          /\ rpos' = rpos + r.n
    /\ pc' = "panic"
    /\ UNCHANGED <<j, err, records, cut, tail, stdin, bufLen, bufCap, words,
                   sealed, file, gpos, wbuf, stdout, emitted, nonCodecVars>>

\* c.AddWord(buf) returns an error: return err
Compress_AddWordFail ==
    /\ pc = "compress"
    /\ LET r == ReadUvarint(stdin, rpos)
           b == ResizeBuf(bufLen, bufCap, r)
       IN /\ r.err = "nil"
          /\ b.out = "ok"
          /\ rpos + r.n + b.len <= Len(stdin)
          /\ rpos' = rpos + r.n + b.len
          /\ bufLen' = b.len
          /\ bufCap' = b.cap
    /\ Return("error")
    /\ UNCHANGED <<records, cut, tail, stdin, words, sealed, file, gpos, wbuf, stdout,
                   emitted, nonCodecVars>>

\* The word is added and the context is found cancelled: return ctx.Err()
Compress_Cancel ==
    /\ pc = "compress"
    /\ LET r == ReadUvarint(stdin, rpos)
           b == ResizeBuf(bufLen, bufCap, r)
       IN /\ r.err = "nil"
          /\ b.out = "ok"
          /\ rpos + r.n + b.len <= Len(stdin)
          /\ words' = Append(words, SubSeq(stdin, rpos + r.n + 1, rpos + r.n + b.len))
          /\ rpos' = rpos + r.n + b.len
          /\ bufLen' = b.len
          /\ bufCap' = b.cap
    /\ Return("error")
    /\ UNCHANGED <<records, cut, tail, stdin, sealed, file, gpos, wbuf, stdout, emitted,
                   nonCodecVars>>

\* ReadUvarint returns an error and the loop ends: any error but io.EOF is
\* returned; on io.EOF c.Compress() seals the file.
Compress_Finish ==
    /\ pc = "compress"
    /\ LET r == ReadUvarint(stdin, rpos)
       IN /\ r.err # "nil"
          /\ rpos' = rpos + r.n
          /\ IF r.err = "EOF"
               THEN /\ sealed' = TRUE
                    /\ file' = words
                    /\ Return("nil")
               ELSE /\ Return("error")
                    /\ UNCHANGED <<sealed, file>>
    /\ UNCHANGED <<records, cut, tail, stdin, bufLen, bufCap, words, gpos, wbuf, stdout,
                   emitted, nonCodecVars>>

\* The loop ends on io.EOF and c.Compress() returns an error.
Compress_FinishFail ==
    /\ pc = "compress"
    /\ ReadUvarint(stdin, rpos).err = "EOF"
    /\ Return("error")
    /\ UNCHANGED <<records, cut, tail, stdin, rpos, bufLen, bufCap, words, sealed, file,
                   gpos, wbuf, stdout, emitted, nonCodecVars>>

\* doUncompress on the sealed file, up to its loop: compress.NewDecompressor,
\* the writer on stdout, the getter.  It is followed on the files whose
\* output is at most MaxOut bytes.
Uncompress_Start ==
    /\ pc = "done"
    /\ sealed
    /\ Len(Encode(file)) <= MaxOut
    /\ \/ pc' = "uncompress" /\ err' = "nil"
       \/ pc' = "uncompressed" /\ err' = "error"
    /\ UNCHANGED <<j, codecVars, nonCodecVars>>

\* wr.Write(p) on the bufio.Writer of 128 MB: while the bytes fit, they are
\* copied into the buffer and nothing reaches os.Stdout; the call cannot fail.
Fits(buf, p) == Len(buf) + Len(p) <= WriterSize

\* The deferred wr.Flush() of doUncompress: one write of the buffered bytes to
\* os.Stdout, which takes all of them, or fails having taken any number of
\* them short of all; an empty buffer is not written.  What os.Stdout has
\* taken: any prefix of the buffer.
FlushTaken(buf) == {SubSeq(buf, 1, k) : k \in 0..Len(buf)}

\* One pass of the loop of doUncompress: g.Next gives the next word, its
\* uvarint length and its bytes are written to wr.
Uncompress_Word ==
    /\ pc = "uncompress"
    /\ gpos < Len(file)
    /\ LET w == file[gpos + 1]
       IN /\ Fits(wbuf, PutUvarint(Len(w)) \o w)
          /\ wbuf' = wbuf \o PutUvarint(Len(w)) \o w
          /\ emitted' = Append(emitted, <<Len(w), w>>)
    /\ gpos' = gpos + 1
    /\ UNCHANGED <<pc, j, err, records, cut, tail, stdin, rpos, bufLen, bufCap, words,
                   sealed, file, stdout, nonCodecVars>>

\* The word is written to wr and the context is found cancelled:
\* return ctx.Err(); the deferred wr.Flush() runs, its error is dropped.
Uncompress_Cancel ==
    /\ pc = "uncompress"
    /\ gpos < Len(file)
    /\ LET w == file[gpos + 1]
           b == wbuf \o PutUvarint(Len(w)) \o w
       IN /\ Fits(wbuf, PutUvarint(Len(w)) \o w)
          /\ emitted' = Append(emitted, <<Len(w), w>>)
          /\ \E taken \in FlushTaken(b) :
               /\ stdout' = stdout \o taken
               /\ wbuf' = SubSeq(b, Len(taken) + 1, Len(b))
    /\ gpos' = gpos + 1
    /\ pc' = "uncompressed"
    /\ err' = "error"
    /\ UNCHANGED <<j, records, cut, tail, stdin, rpos, bufLen, bufCap, words, sealed,
                   file, nonCodecVars>>

\* g.HasNext() is false: return nil; the deferred wr.Flush() runs, its error
\* is dropped.
Uncompress_Done ==
    /\ pc = "uncompress"
    /\ ~(gpos < Len(file))
    /\ \E taken \in FlushTaken(wbuf) :
         /\ stdout' = stdout \o taken
         /\ wbuf' = SubSeq(wbuf, Len(taken) + 1, Len(wbuf))
    /\ pc' = "uncompressed"
    /\ err' = "nil"
    /\ UNCHANGED <<j, records, cut, tail, stdin, rpos, bufLen, bufCap, words, sealed,
                   file, gpos, emitted, nonCodecVars>>

CodecNext ==
    \/ Compress_Start
    \/ Compress_AddWord
    \/ Compress_ReadFullFail
    \/ Compress_ResizePanic
    \/ Compress_AddWordFail
    \/ Compress_Cancel
    \/ Compress_Finish
    \/ Compress_FinishFail
    \/ Uncompress_Start
    \/ Uncompress_Word
    \/ Uncompress_Cancel
    \/ Uncompress_Done

SpecCodec == CodecInit /\ [][CodecNext]_vars

\* ------------------------------------------- retire on a long hot store
\* The block loop of retire on a hot store whose last block lies beyond the
\* reorg safety margin, history off.
DeepStoreInit ==
    /\ blocks = 0..(FullImmutabilityThreshold + MaxBlock)
    /\ execProgress = 0
    /\ historyV3 = FALSE
    /\ histRows = {}
    /\ metaSegs = {}
    /\ metaHist = {}
    /\ segs = {}
    /\ histFiles = {}
    /\ openSegs = {}

DeepInit ==
    DeepStoreInit /\ CtlInit /\ CreateOff /\ IndexOff /\ CodecOff /\ TxOff
    /\ TracerOff

DeepNext ==
    \/ \E f \in 0..MaxFrom, t \in 0..MaxTo, e \in 0..MaxEvery : Retire_Start(f, t, e)
    \/ Retire_OpenFail
    \/ Retire_Dump
    \/ Retire_DumpFail
    \/ Retire_Update
    \/ Retire_UpdateFail
    \/ Retire_LoopExit

SpecRetireDeep == DeepInit /\ [][DeepNext]_vars

\* ----------------------------------- retire, the block prune call by call
\* The read-write transaction of one pass of the block loop, followed call by
\* call, on a hot store with more rows than one call deletes.
PruneStoreInit ==
    /\ blocks = 0..(EligibleRows + 1)
    /\ execProgress = 0
    /\ historyV3 = FALSE
    /\ histRows = {}
    /\ metaSegs = {}
    /\ metaHist = {}
    /\ segs = {}
    /\ histFiles = {}
    /\ openSegs = {}

PruneInit ==
    PruneStoreInit /\ CtlInit /\ CreateOff /\ IndexOff /\ CodecOff /\ TxOff
    /\ TracerOff

\* A transaction that prunes without writing the file lists first.
Tx_Begin_NoWrite ==
    /\ pc = "update"
    /\ tx' = [open |-> TRUE, rows |-> blocks,
              metaSegs |-> metaSegs, metaHist |-> metaHist]
    /\ calls' = 0
    /\ txPrunes' = 0
    /\ txMeta' = FALSE
    /\ pc' = "tx"
    /\ UNCHANGED <<storeVars, from, to, every, i, j, err, aggTxNum, wmSet,
                   progRead, dumped, run, prev, envChanged, readFailed, idle>>
    /\ UNCHANGED <<tracerVars, createVars, indexVars, codecVars, cancelVars>>

\* db.Update begins the transaction; rawdb.WriteSnapshots writes the file
\* lists in it.
Tx_Begin ==
    /\ pc = "update"
    /\ tx' = [open |-> TRUE, rows |-> blocks,
              metaSegs |-> openSegs, metaHist |-> AggFiles(histFiles)]
    /\ calls' = 0
    /\ txPrunes' = 0
    /\ txMeta' = TRUE
    /\ pc' = "tx"
    /\ UNCHANGED <<storeVars, from, to, every, i, j, err, aggTxNum, wmSet,
                   progRead, dumped, run, prev, envChanged, readFailed, idle>>
    /\ UNCHANGED <<tracerVars, createVars, indexVars, codecVars, cancelVars>>

\* One call br.PruneAncientBlocks(tx) of the loop j < 10_000 that deletes rows.
Tx_Prune ==
    /\ pc = "tx"
    /\ calls < PruneIters
    /\ PruneAncientBlocks(tx.rows, openSegs) # tx.rows
    /\ tx' = [tx EXCEPT !.rows = PruneAncientBlocks(tx.rows, openSegs)]
    /\ calls' = calls + 1
    /\ txPrunes' = calls + 1
    /\ UNCHANGED <<storeVars, ctlVars, dumped, txMeta, run, prev, envChanged,
                   readFailed, idle>>
    /\ sinceCancel' = IF cancelled THEN sinceCancel + 1 ELSE sinceCancel
    /\ UNCHANGED <<tracerVars, createVars, indexVars, codecVars, cancelled>>

\* The remaining calls of the loop when a call finds nothing to delete: none
\* of them deletes anything; they are taken in one step.
Tx_PruneIdle ==
    /\ pc = "tx"
    /\ calls < PruneIters
    /\ PruneAncientBlocks(tx.rows, openSegs) = tx.rows
    /\ calls' = PruneIters
    /\ txPrunes' = PruneIters
    /\ UNCHANGED <<storeVars, ctlVars, dumped, txMeta, run, prev, envChanged,
                   readFailed, idle, tx>>
    /\ sinceCancel' = IF cancelled THEN sinceCancel + (PruneIters - calls)
                                    ELSE sinceCancel
    /\ UNCHANGED <<tracerVars, createVars, indexVars, codecVars, cancelled>>

\* A call of PruneAncientBlocks returns an error: the function of db.Update
\* returns it, the transaction is rolled back, the command returns the error.
Tx_PruneFail ==
    /\ pc = "tx"
    /\ calls < PruneIters
    /\ tx' = TxNone
    /\ Return("error")
    /\ UNCHANGED <<storeVars, from, to, every, i, aggTxNum, wmSet, progRead,
                   ghostVars, calls>>
    /\ UNCHANGED <<tracerVars, createVars, indexVars, codecVars, cancelVars>>

\* The loop is over: the transaction commits (or the commit fails and the
\* command returns the error); then i += every.
Tx_Commit ==
    /\ pc = "tx"
    /\ calls = PruneIters
    /\ tx' = TxNone
    /\ \/ /\ blocks' = tx.rows
          /\ metaSegs' = tx.metaSegs
          /\ metaHist' = tx.metaHist
          /\ i' = Add64(i, every)
          /\ pc' = "loop"
          /\ UNCHANGED <<err, j>>
       \/ /\ Return("error")
          /\ UNCHANGED <<blocks, metaSegs, metaHist, i>>
    /\ UNCHANGED <<histRows, execProgress, historyV3, segs, histFiles, openSegs,
                   from, to, every, aggTxNum, wmSet, progRead, ghostVars, calls>>
    /\ UNCHANGED <<tracerVars, createVars, indexVars, codecVars, cancelVars>>

\* The context from common.RootContext is cancelled (a termination signal)
\* while the prune loop of a transaction runs.  The loop calls
\* br.PruneAncientBlocks(tx), which takes no context, and has no select on
\* ctx.Done: nothing in it reads the cancellation.
Env_Cancel ==
    /\ pc = "tx"
    /\ ~cancelled
    /\ cancelled' = TRUE
    /\ UNCHANGED <<storeVars, ctlVars, ghostVars, createVars, indexVars,
                   codecVars, txVars, sinceCancel, tracerVars>>

PruneNext ==
    \/ \E e \in {EligibleRows \div 2, EligibleRows} :
           Retire_Start(0, EligibleRows, e)
    \/ Retire_OpenFail
    \/ Retire_Dump
    \/ Retire_DumpFail
    \/ Tx_Begin
    \/ Tx_Prune
    \/ Tx_PruneIdle
    \/ Tx_PruneFail
    \/ Tx_Commit
    \/ Env_Cancel
    \/ Retire_LoopExit

SpecPrune == PruneInit /\ [][PruneNext]_vars

\* ------------------------------------------------------- claims about retire
\* The sub-ranges handed to RetireBlocks are consecutive from lo to hi.
Consecutive(ranges, lo, hi) ==
    /\ Len(ranges) > 0
    /\ ranges[1][1] = lo
    /\ ranges[Len(ranges)][2] = hi
    /\ \A k \in 1..Len(ranges) : ranges[k][1] < ranges[k][2]
    /\ \A k \in 1..(Len(ranges) - 1) : ranges[k][2] = ranges[k + 1][1]

\* The block numbers of a half-open range.
RangeBlocks(lo, hi) == {b \in 0..(MaxBlock + MaxTo + MaxEvery) : lo <= b /\ b < hi}

\* C1: when retire completes without error for to > from, the ranges handed to
\* RetireBlocks cover exactly [from, to), none extends past to, and every row of
\* [from, to) captured in a segment is deleted from the hot store.
C1_RetireCoversExactly ==
    (pc = "done" /\ err = "nil" /\ to > from) =>
        /\ Consecutive(dumped, from, to)
        /\ \A k \in 1..Len(dumped) : dumped[k][2] <= to
        /\ \A b \in RangeBlocks(from, to) : Captured(b, segs) => b \notin blocks

\* C2: no read-write transaction of the controller holds more than one prune
\* batch.
C2_OnePruneBatchPerTx == txPrunes <= 1

\* BuildFiles runs only after SetTxNum was called in this invocation.
C5_SetBeforeBuild ==
    pc \in {"buildFiles", "merge", "prune2"} =>
        wmSet /\ aggTxNum = TxNumsMax(progRead)

\* The watermark of the invocation comes from the committed progress of the
\* execution stage.
C5_FromCommittedProgress ==
    pc \in {"buildFiles", "merge", "prune2"} => progRead = execProgress

\* A file created in this invocation carries its watermark, and no file
\* reaches above the watermark that was in force when it was created.
C5_FilesBelowWatermark ==
    /\ pc \in {"merge", "prune2"} =>
          \A f \in histFiles \ prev.histFiles : f.wm = aggTxNum
    /\ \A f \in histFiles : f.hi * AggStep <= f.wm

\* C5: BuildFiles runs only after SetTxNum was called in this invocation with
\* the last transaction number of the committed execution progress, and no
\* history file, built or merged, reaches above the watermark that was in
\* force when it was created.
C5_NeverBeyondWatermark ==
    /\ C5_SetBeforeBuild
    /\ C5_FromCommittedProgress
    /\ C5_FilesBelowWatermark

\* C5 for the files that BuildFiles creates: none reaches above the watermark
\* of the invocation that builds it.
C5_BuiltBelowWatermark ==
    pc = "merge" =>
        \A f \in histFiles \ prev.histFiles : f.hi * AggStep <= aggTxNum

\* C6: when retire completes without error, the file lists stored in the hot
\* store are the current segment file list and the current history file list.
C6_MetadataCurrent ==
    (pc = "done" /\ err = "nil") =>
        /\ metaSegs = segs
        /\ metaHist = AggFiles(histFiles)

\* C7: a second retire with the same flags, run right after a first one that
\* completed, completes with the segment set and the hot store as the first
\* run left them.
C7_RetireIdempotent ==
    (run = 2 /\ pc = "done" /\ err = "nil" /\ ~readFailed /\ prev.ok
       /\ ~envChanged) =>
        /\ segs = prev.segs
        /\ blocks = prev.blocks
        /\ histRows = prev.histRows
        /\ metaSegs = prev.metaSegs
        /\ metaHist = prev.metaHist

\* The phases of retire on the history, in the order of the code, and the
\* phase that follows each.
HistPhases == {"prune1", "indices", "watermark", "buildFiles", "merge", "prune2"}

PhaseAfter(p) ==
    CASE p = "prune1" -> "indices"
      [] p = "indices" -> "watermark"
      [] p = "watermark" -> "buildFiles"
      [] p = "buildFiles" -> "merge"
      [] p = "merge" -> "prune2"
      [] OTHER -> "done"

\* In a prune phase at most 1024 iterations have run, each a transaction of
\* its own holding one Prune call and no file list write; a failed read of
\* the watermark phase has ended the invocation with an error.
C17_Phase ==
    /\ pc \in {"prune1", "prune2"} =>
          /\ j <= HistPruneIters
          /\ j > 0 => (txPrunes = 1 /\ ~txMeta)
    /\ readFailed => (pc = "done" /\ err = "error")

\* A phase is left for the phase after it, a prune phase after its last
\* iteration; or for the return of an error, which changes no row and no file.
C17_PhaseStep ==
    (pc \in HistPhases /\ pc' # pc) =>
        \/ /\ pc' = PhaseAfter(pc)
           /\ err' = "nil"
           /\ pc \in {"prune1", "prune2"} => j = HistPruneIters
        \/ /\ pc' = "done"
           /\ err' = "error"
           /\ histRows' = histRows
           /\ histFiles' = histFiles

\* C17: with history on, the phases run in the order prune, build missed
\* indices, watermark, build files, merge, prune, each prune phase at most
\* 1024 iterations of one transaction each, and the first failure of an
\* iteration or phase ends the invocation with an error, leaving what was
\* committed.
C17_HistoryPhasesInOrder == []C17_Phase /\ [][C17_PhaseStep]_vars

\* The dump of some sub-range of this invocation has left no file.
DumpFailed ==
    \E k \in 1..Len(dumped) :
        dumped[k][1] < dumped[k][2] /\ dumped[k] \notin segs

\* C18: when the dump of a sub-range fails, the command returns an error, the
\* failed sub-range is the last one handled, the stored file list does not
\* hold it and every row gone from the hot store is captured by a file of
\* the stored list.
C18_DumpFailureIsAnError ==
    DumpFailed =>
        /\ pc = "done" /\ err = "error"
        /\ dumped[Len(dumped)] \notin segs
        /\ dumped[Len(dumped)] \notin metaSegs
        /\ \A b \in prev.blocks \ blocks : Captured(b, metaSegs)

\* ------------------------------------------------------- claims about create
\* C3: a create whose dump phase failed returns an error.
C3_CreateErrorOnFailedDump == (pc = "done" /\ dumpFailed) => err = "error"

\* C9: create hands DumpBlocks exactly [from, to) with the segment size when
\* to > 0; a dump that succeeds leaves exactly the segmentSize-wide files of
\* [from, to) (the last one ending at to); no block row of the hot store is
\* deleted or changed; with segmentSize 1000, blocks 0..2500, from 0 and to 2000
\* the files are [0,1000) and [1000,2000).
C9_CreateDumpsExactRange ==
    /\ pc # "idle" => blocks = prev.blocks
    /\ (to > 0 /\ dumpReq # <<>>) => dumpReq = <<from, to, segSize>>
    /\ (to > 0 /\ dumpReq # <<>> /\ ~dumpFailed) =>
          /\ \A f \in segs :
                /\ from <= f[1] /\ f[1] < f[2] /\ f[2] <= to
                /\ (f[1] - from) % segSize = 0
                /\ f[2] - f[1] = segSize \/ (f[2] = to /\ f[2] - f[1] < segSize)
          /\ \A b \in {from, to - 1} \cup {f[2] : f \in segs} \cup
                       {f[1] - 1 : f \in segs} :
                (from <= b /\ b < to) => Captured(b, segs)
          /\ \A f \in segs, g \in segs : f # g => (f[2] <= g[1] \/ g[2] <= f[1])
    /\ (segSize = 1000 /\ from = 0 /\ to = 2000 /\ prev.blocks = 0..2500
          /\ dumpReq # <<>> /\ ~dumpFailed) =>
          /\ segs = {<<0, 1000>>, <<1000, 2000>>}
          /\ \A b \in 2000..2500 : b \in blocks

\* The scenario of C9 has run to its end.
C9_Witness ==
    /\ pc = "done" /\ err = "nil" /\ ~dumpFailed
    /\ segSize = 1000 /\ from = 0 /\ to = 2000 /\ blocks = 0..2500
    /\ segs = {<<0, 1000>>, <<1000, 2000>>}
    /\ metaSegs = segs

\* C10: with to = 0 the selected upper block is max(0, lastStoredBlock - margin)
\* rounded down to a multiple of the segment size: a multiple of it, at most
\* lastStoredBlock - margin above the margin, 0 at or below it, never wrapped.
C10_LastChunk ==
    (pc = "dumpBlocks" /\ to = 0) =>
        LET k == LastKey(blocks)
            m == IF k > FullImmutabilityThreshold
                   THEN k - FullImmutabilityThreshold ELSE 0
        IN /\ last = (m \div segSize) * segSize
           /\ last % segSize = 0
           /\ k > FullImmutabilityThreshold => last <= k - FullImmutabilityThreshold
           /\ k <= FullImmutabilityThreshold => last = 0
           /\ 0 <= last /\ last <= k

\* The margin was subtracted and the result rounded down to a lower multiple.
C10_Witness ==
    /\ pc = "dumpBlocks" /\ to = 0
    /\ last > 0
    /\ last < LastKey(blocks) - FullImmutabilityThreshold

\* C12: a create with a segment size below 1000 returns an error before any
\* I/O: no directory made, no store opened, nothing dumped, reopened or
\* written.
C12_SmallSegmentRejectedFirst ==
    (pc # "idle" /\ segSize < MinSegmentSize) =>
        /\ pc = "done" /\ err = "error"
        /\ ioLog = <<>>
        /\ dumpReq = <<>>
        /\ segs = prev.segs /\ blocks = prev.blocks
        /\ openSegs = {} /\ metaSegs = {} /\ metaHist = {}

\* A create with segment size 999 has returned.
C12_Witness ==
    /\ pc = "done" /\ segSize = 999 /\ err = "error"
    /\ ioLog = <<>>

\* -------------------------------------------------------- claims about index
\* C4: an index command in which the segment index rebuild or the history index
\* build failed returns an error, and no phase runs after a failed one.
C4_IndexErrorOnFailedBuild ==
    /\ (pc = "done" /\ idxFailed) => err = "error"
    /\ ~ranAfterFail

\* C15: an index command with the rebuild flag ends with a result, nil or an
\* error, never an abort, and a nil result means every segment file and every
\* history file has its index rebuilt.
C15_RebuildFlagRebuilds ==
    (rebuild /\ pc # "idle") =>
        /\ pc # "panic"
        /\ (pc = "done" /\ err = "nil") =>
              (segIdx = segs /\ histIdx = AggFiles(histFiles))

\* ------------------------------------- claims about retire on a long store
\* C11: a retire with to = 0 on a hot store whose last block lies beyond the
\* reorg safety margin, when it returns nil, has handed at least one sub-range
\* to the dump, the first one starting at from.
C11_ToZeroIsUnbounded ==
    (pc = "done" /\ err = "nil" /\ to = 0
       /\ LastKey(prev.blocks) > FullImmutabilityThreshold) =>
        /\ Len(dumped) >= 1
        /\ dumped[1][1] = from

\* ------------------------------------------- claims about the block prune
\* The rows that the open segment files make eligible, among the rows the hot
\* store held when the invocation started, and among the rows it holds now.
Eligible == {b \in prev.blocks : Captured(b, openSegs)}

EligibleNow == {b \in blocks : Captured(b, openSegs)}

\* C14: with a budget of 3 rows and 10 eligible rows, the rows are cleared
\* after no fewer than 4 prune invocations; a run interrupted after 2
\* invocations leaves exactly 4 rows pruned; a later run that returns nil
\* leaves no eligible row, and no row is ever deleted that was not present
\* and captured.
C14_PruneBudgetScenario ==
    PruneBudget = 3 =>
        /\ (pc = "tx" /\ Cardinality(EligibleNow) = 10
              /\ tx.rows \cap EligibleNow = {}) => calls >= 4
        /\ (pc = "done" /\ err = "error" /\ run = 1 /\ calls = 2
              /\ Len(dumped) = 1 /\ Cardinality(Eligible) = 10) =>
              Cardinality(prev.blocks \ blocks) = 4
        /\ (pc = "done" /\ err = "nil" /\ run = 2) =>
              blocks \cap Eligible = {}
        /\ prev.blocks \ blocks \subseteq Eligible

\* C16: a block row is pruned only in the transaction of a sub-range whose
\* dump has returned and after the file lists were written in that
\* transaction; the rows gone from the hot store are captured by the stored
\* file list; and when the dump of a sub-range has run, the transactions of
\* all sub-ranges before it have committed.
C16_DumpThenMetaThenPrune ==
    /\ (pc = "tx" /\ calls > 0) =>
          /\ Len(dumped) > 0
          /\ dumped[Len(dumped)] = <<i, Add64(i, every)>>
          /\ RetireBlocks({}, i, Add64(i, every)) \subseteq segs
          /\ tx.metaSegs = segs
    /\ \A b \in prev.blocks \ blocks : Captured(b, metaSegs)
    /\ (pc = "update" /\ Len(dumped) >= 2) =>
          /\ ~tx.open
          /\ \A k \in 1..(Len(dumped) - 1) :
                RetireBlocks({}, dumped[k][1], dumped[k][2]) \subseteq metaSegs

\* The second sub-range of an invocation is being pruned.
C16_Witness ==
    /\ pc = "tx" /\ calls = 2
    /\ Len(dumped) = 2
    /\ tx.rows # blocks

\* C19: after the cancellation the block prune loop starts at most one
\* further prune batch, the invocation goes on to no further sub-range, and
\* the command returns the cancellation error.
C19_CancelStopsLoops ==
    cancelled =>
        /\ sinceCancel <= 1
        /\ pc \in {"tx", "done"}
        /\ pc = "done" => err = "error"

\* ---------------------------------------------------- claims about the codec
\* The input stream is the encoding of the first n records and nothing more.
CompleteUpTo(n) == tail = <<>> /\ stdin = Encode(SubSeq(records, 1, n))

Complete == \E n \in 0..Len(records) : CompleteUpTo(n)

\* C13: compress on a stream that ends inside a length prefix or a payload, or
\* holds a length that cannot be decoded, returns an error and does not seal;
\* a sealed file holds every record of a cleanly ended stream, in input order.
C13_MalformedNeverSealed ==
    /\ (pc \notin {"idle", "compress"} /\ ~Complete) =>
          (pc = "done" /\ err = "error" /\ ~sealed)
    /\ sealed =>
          \E n \in 0..Len(records) :
             CompleteUpTo(n) /\ file = SubSeq(records, 1, n)

\* C8: compress on the encoding of a sequence of records, then uncompress on
\* the sealed file, writes the same (length, bytes) pairs in the same order,
\* and the same bytes.
C8_RoundTrip ==
    (pc = "uncompressed" /\ err = "nil" /\ cut = 0 /\ tail = <<>>) =>
        /\ emitted = [k \in 1..Len(records) |-> <<Len(records[k]), records[k]>>]
        /\ stdout = stdin

\* C8 for the runs in which os.Stdout took everything the final flush wrote.
C8_RoundTripFlushed ==
    (pc = "uncompressed" /\ err = "nil" /\ cut = 0 /\ tail = <<>> /\ wbuf = <<>>) =>
        /\ emitted = [k \in 1..Len(records) |-> <<Len(records[k]), records[k]>>]
        /\ stdout = stdin



\* ----------------------------------------------------------------------- C20
\* What a successful return leaves behind: a block row captured by a segment
\* file, a history row captured by a history file, a step below the watermark
\* with no file, a pair of files still to merge.
LeftBlocks == {b \in blocks : Captured(b, segs)}
LeftToBuild == BuildFiles(histFiles, aggTxNum) # histFiles
LeftToMerge == MergeLoop(histFiles, aggTxNum) # histFiles

C20_NothingLeft ==
    /\ LeftBlocks = {}
    /\ historyV3 => /\ ToPrune = {}
                    /\ ~LeftToBuild
                    /\ ~LeftToMerge

\* The step on which the command returns nil leaves nothing behind.
C20_ReturnStep ==
    (pc # "done" /\ pc' = "done" /\ err' = "nil") => C20_NothingLeft'

\* In a history prune phase at most one pass in a row has found nothing to
\* prune: the pass that finds this out is the last one.
C20_StopsWhenIdle ==
    pc \in {"prune1", "prune2"} => idle <= 1

\* C20: when retire returns successfully no captured block row or history row
\* is left to prune and no history file is left to build or merge, and a prune
\* phase issues no further transaction once an iteration found nothing to prune.
C20_EndsWhenNoProgress == []C20_StopsWhenIdle /\ [][C20_ReturnStep]_vars

\* C20, the state at a successful return alone.
C20_ReturnPart == [][C20_ReturnStep]_vars


\* ----------------------------------------------------------------------- C21
\* ceil((to - from) / every), the passes the block loop is said to make.
Passes == IF to > from /\ every >= 1 THEN (to - from + every - 1) \div every ELSE 0

NoRangeTwice ==
    \A a, b \in DOMAIN dumped : a # b => dumped[a] # dumped[b]

\* C21: the block loop of one invocation never hands the same sub-range to the
\* dump twice, makes no more than ceil((to - from) / every) passes when
\* to > from and every >= 1, and has made exactly that many when it is left.
C21_BlockLoopTerminates ==
    run > 0 =>
        /\ NoRangeTwice
        /\ (to > from /\ every >= 1) => Len(dumped) <= Passes
        /\ (pc = "loop" /\ ~(i < to) /\ every >= 1) => Len(dumped) = Passes

\* C21 for the invocations with every >= 1 that the bounds reach.
C21_PositiveStep == every >= 1 => C21_BlockLoopTerminates


\* ------------------------------------------- access list tracer (core/vm)
\* What the tracer never touches.
nonTracerVars == <<storeVars, ctlVars, ghostVars, createVars, indexVars,
                   codecVars, txVars, cancelVars>>

\* common.Address values, and the 32-byte stack words: lo is the low 20 bytes
\* of a word, hi the 12 bytes above them.
Addrs == 0..MaxAddr
Words == [hi : 0..1, lo : Addrs]
ZeroWord == [hi |-> 0, lo |-> 0]

\* common.Hash(w.Bytes32()): the whole word.
Bytes32(w) == w
\* common.Address(w.Bytes20()): the low 20 bytes of the word.
Bytes20(w) == w.lo

SlotOps == {"SLOAD", "SSTORE"}
AddrOps == {"EXTCODECOPY", "EXTCODEHASH", "EXTCODESIZE", "BALANCE", "SELFDESTRUCT"}
CallOps == {"DELEGATECALL", "CALL", "STATICCALL", "CALLCODE"}
OpCodes == SlotOps \cup AddrOps \cup CallOps \cup {"ADD"}

\* accessList.addAddress
addAddress(al, address) ==
    IF address \in DOMAIN al THEN al ELSE al @@ (address :> {})

\* accessList.addSlot
addSlot(al, address, slot) ==
    LET l == addAddress(al, address)
    IN [l EXCEPT ![address] = @ \cup {slot}]

\* for _, slot := range al.StorageKeys { list.addSlot(al.Address, slot) }
RECURSIVE AddKeys(_, _, _, _)
AddKeys(al, address, keys, k) ==
    IF k > Len(keys) THEN al
    ELSE AddKeys(addSlot(al, address, keys[k]), address, keys, k + 1)

\* for _, al := range acl { ... }  of NewAccessListTracer
RECURSIVE PrefillList(_, _, _, _)
PrefillList(al, acl, k, ex) ==
    IF k > Len(acl) THEN al
    ELSE LET t == acl[k]
             l == IF t.Address \notin ex THEN addAddress(al, t.Address) ELSE al
         IN PrefillList(AddKeys(l, t.Address, t.StorageKeys, 1), acl, k + 1, ex)

\* The excl map of NewAccessListTracer.
Excl(f, t, precompiles) ==
    {f, t} \cup {precompiles[k] : k \in DOMAIN precompiles}

\* The inputs: access lists of at most two tuples, each with at most one
\* storage key, and the precompile lists.
TopWord == [hi |-> 1, lo |-> MaxAddr]
AccessTuples == [Address : Addrs, StorageKeys : {<<>>, <<ZeroWord>>, <<TopWord>>}]
AccessLists ==
    {<<>>} \cup {<<t>> : t \in AccessTuples}
           \cup {<<t, u>> : t \in AccessTuples, u \in AccessTuples}
PrecompileLists == {<<>>, <<MaxAddr>>, <<MaxAddr, MaxAddr>>}

\* The stacks: empty, one word, four words, five words; the words that no
\* opcode of the tracer reads are zero.
Stacks ==
    {<<>>, <<ZeroWord, ZeroWord, TopWord, ZeroWord>>}
        \cup {<<w>> : w \in Words}
        \cup {<<ZeroWord, ZeroWord, ZeroWord, w, ZeroWord>> : w \in Words}

TracerInit ==
    /\ PruneStoreInit /\ CtlInit /\ CreateOff /\ IndexOff /\ CodecOff /\ TxOff
    /\ TracerOff

\* The (address, storage key) pairs of an access list.
Prefilled(acl) ==
    UNION {{<<acl[k].Address, Bytes32(acl[k].StorageKeys[n])>> :
               n \in DOMAIN acl[k].StorageKeys} : k \in DOMAIN acl}

\* NewAccessListTracer(acl, from, to, precompiles)
Tracer_New(acl, f, t, precompiles) ==
    /\ tracer = "none"
    /\ tracer' = "ready"
    /\ excl' = Excl(f, t, precompiles)
    /\ list' = PrefillList(<<>>, acl, 1, excl')
    /\ recorded' = Prefilled(acl)
    /\ touched' = {acl[k].Address : k \in DOMAIN acl}
    /\ events' = 0
    /\ UNCHANGED nonTracerVars


\* The address an opcode names on the stack, if it names one.
Named(op, stack) ==
    IF op \in AddrOps /\ Len(stack) >= 1 THEN {Bytes20(stack[Len(stack)])}
    ELSE IF op \in CallOps /\ Len(stack) >= 5 THEN {Bytes20(stack[Len(stack) - 1])}
    ELSE {}

\* The slot an opcode records in the running contract, if it records one.
Slotted(op, stack, contract) ==
    IF op \in SlotOps /\ Len(stack) >= 1
      THEN {<<contract, Bytes32(stack[Len(stack)])>>}
      ELSE {}

\* A CaptureState that adds every named address, excluded or not.
CaptureState_NoExclCheck(op, stack, contract) ==
    /\ tracer = "ready"
    /\ events < MaxEvents
    /\ LET l1 == IF op \in SlotOps /\ Len(stack) >= 1
                   THEN addSlot(list, contract, Bytes32(stack[Len(stack)]))
                   ELSE list
           l2 == IF op \in AddrOps /\ Len(stack) >= 1
                   THEN addAddress(l1, Bytes20(stack[Len(stack)]))
                   ELSE l1
           l3 == IF op \in CallOps /\ Len(stack) >= 5
                   THEN addAddress(l2, Bytes20(stack[Len(stack) - 1]))
                   ELSE l2
       IN list' = l3
    /\ recorded' = recorded \cup Slotted(op, stack, contract)
    /\ touched' = touched \cup Named(op, stack)
    /\ events' = events + 1
    /\ UNCHANGED <<tracer, excl>>
    /\ UNCHANGED nonTracerVars

\* AccessListTracer.CaptureState(pc, op, gas, cost, scope, ...): scope.Stack is
\* stack (its top is the last element), scope.Contract.Address() is contract.
CaptureState(op, stack, contract) ==
    /\ tracer = "ready"
    /\ events < MaxEvents
    /\ LET l1 == IF op \in SlotOps /\ Len(stack) >= 1
                   THEN addSlot(list, contract, Bytes32(stack[Len(stack)]))
                   ELSE list
           l2 == IF op \in AddrOps /\ Len(stack) >= 1
                      /\ Bytes20(stack[Len(stack)]) \notin excl
                   THEN addAddress(l1, Bytes20(stack[Len(stack)]))
                   ELSE l1
           l3 == IF op \in CallOps /\ Len(stack) >= 5
                      /\ Bytes20(stack[Len(stack) - 1]) \notin excl
                   THEN addAddress(l2, Bytes20(stack[Len(stack) - 1]))
                   ELSE l2
       IN list' = l3
    /\ recorded' = recorded \cup Slotted(op, stack, contract)
    /\ touched' = touched \cup Named(op, stack)
    /\ events' = events + 1
    /\ UNCHANGED <<tracer, excl>>
    /\ UNCHANGED nonTracerVars

TracerNext ==
    \/ \E acl \in AccessLists, f \in Addrs, t \in Addrs, p \in PrecompileLists :
         Tracer_New(acl, f, t, p)
    \/ \E op \in OpCodes, stack \in Stacks, contract \in Addrs :
         CaptureState(op, stack, contract)

SpecTracer == TracerInit /\ [][TracerNext]_vars

\* ----------------------------------------------------------------------- C22
\* C22: an excluded address (from, to, a precompile) is in the accumulated list
\* only with a non-empty slot set, every slot of which was recorded for it by a
\* prefilled storage key or an SLOAD/SSTORE in that contract; and every
\* recorded (address, slot) pair is in the list.
C22_ExcludedOnlyWithSlots ==
    tracer = "ready" =>
        /\ \A a \in excl \cap DOMAIN list :
             /\ list[a] # {}
             /\ \A s \in list[a] : <<a, s>> \in recorded
        /\ \A r \in recorded : r[1] \in DOMAIN list /\ r[2] \in list[r[1]]

\* C22's case: after CaptureState events, an excluded address that an access
\* tuple or an opcode named is absent, and another is present with a slot.
C22_Witness ==
    /\ tracer = "ready"
    /\ events > 0
    /\ \E a \in excl \cap touched : a \notin DOMAIN list
    /\ \E b \in excl \cap DOMAIN list : list[b] # {}

====
